---- MODULE Spec2Model ----
(***************************************************************************)
(* Model of src/backend/database.py: the MockCollection in-memory store,   *)
(* the two module-level collections, the seed data and init_database.      *)
(*                                                                         *)
(* Python objects are modelled with their identity: every dict and list    *)
(* lives at an address of `heap`, and a field that holds a list or a       *)
(* nested dict holds the address.  `{"_id": key, **value}` builds a fresh  *)
(* top-level dict whose nested values are the same objects.                *)
(***************************************************************************)
EXTENDS Integers, Sequences, FiniteSets, TLC

VARIABLES
    heap,     \* the Python heap: address -> list or dict object
    data,     \* data[c] : MockCollection._data of collection c, in insertion order
    ret,      \* the record the caller holds from the last find_one (or None)
    found,    \* the records the caller holds from the last find, in yield order
    doc,      \* address of the document the caller last passed to insert_one (0: none)
    result,   \* the last call: operation, arguments, returned Result object
    nops      \* number of state-changing calls made so far

vars == <<heap, data, ret, found, doc, result, nops>>

----------------------------------------------------------------------------
(* Bounds *)

MaxOps == 3

----------------------------------------------------------------------------
(* Python values.  str, int and references share one record shape.         *)
(* A time string "HH:MM" is kept as its sequence of characters in `t`      *)
(* (digit d as d, ':' as Colon) so that Python's string order is computed. *)

Colon == 10

StrV(s)  == [kind |-> "str", s |-> s,  n |-> 0, t |-> <<>>]
IntV(n)  == [kind |-> "int", s |-> "", n |-> n, t |-> <<>>]
RefV(a)  == [kind |-> "ref", s |-> "", n |-> a, t |-> <<>>]
TimeV(t) == [kind |-> "str", s |-> "", n |-> 0, t |-> t]

HHMM(h, m) == <<h \div 10, h % 10, Colon, m \div 10, m % 10>>

NoBody == [f \in {} |-> StrV("")]

ListO(items) == [kind |-> "list", items |-> items, body |-> NoBody]
DictO(body)  == [kind |-> "dict", items |-> <<>>,  body |-> body]

Without(b, f) == [g \in (DOMAIN b) \ {f} |-> b[g]]
With(b, f, v) == [g \in (DOMAIN b) \cup {f} |-> IF g = f THEN v ELSE b[g]]

IsList(h, b, f) == f \in DOMAIN b /\ b[f].kind = "ref" /\ h[b[f].n].kind = "list"
IsDict(h, b, f) == f \in DOMAIN b /\ b[f].kind = "ref" /\ h[b[f].n].kind = "dict"

----------------------------------------------------------------------------
(* Seed data: initial_activities and initial_teachers.                     *)

SeedActivities == <<
    [name |-> "Chess Club",
     description |-> "Learn strategies and compete in chess tournaments",
     schedule |-> "Mondays and Fridays, 3:15 PM - 4:45 PM",
     days |-> <<"Monday", "Friday">>, start |-> HHMM(15, 15), end |-> HHMM(16, 45),
     max |-> 12,
     participants |-> <<"michael@mergington.edu", "daniel@mergington.edu">>],
    [name |-> "Programming Class",
     description |-> "Learn programming fundamentals and build software projects",
     schedule |-> "Tuesdays and Thursdays, 7:00 AM - 8:00 AM",
     days |-> <<"Tuesday", "Thursday">>, start |-> HHMM(7, 0), end |-> HHMM(8, 0),
     max |-> 20,
     participants |-> <<"emma@mergington.edu", "sophia@mergington.edu">>],
    [name |-> "Morning Fitness",
     description |-> "Early morning physical training and exercises",
     schedule |-> "Mondays, Wednesdays, Fridays, 6:30 AM - 7:45 AM",
     days |-> <<"Monday", "Wednesday", "Friday">>, start |-> HHMM(6, 30), end |-> HHMM(7, 45),
     max |-> 30,
     participants |-> <<"john@mergington.edu", "olivia@mergington.edu">>],
    [name |-> "Soccer Team",
     description |-> "Join the school soccer team and compete in matches",
     schedule |-> "Tuesdays and Thursdays, 3:30 PM - 5:30 PM",
     days |-> <<"Tuesday", "Thursday">>, start |-> HHMM(15, 30), end |-> HHMM(17, 30),
     max |-> 22,
     participants |-> <<"liam@mergington.edu", "noah@mergington.edu">>],
    [name |-> "Basketball Team",
     description |-> "Practice and compete in basketball tournaments",
     schedule |-> "Wednesdays and Fridays, 3:15 PM - 5:00 PM",
     days |-> <<"Wednesday", "Friday">>, start |-> HHMM(15, 15), end |-> HHMM(17, 0),
     max |-> 15,
     participants |-> <<"ava@mergington.edu", "mia@mergington.edu">>],
    [name |-> "Art Club",
     description |-> "Explore various art techniques and create masterpieces",
     schedule |-> "Thursdays, 3:15 PM - 5:00 PM",
     days |-> <<"Thursday">>, start |-> HHMM(15, 15), end |-> HHMM(17, 0),
     max |-> 15,
     participants |-> <<"amelia@mergington.edu", "harper@mergington.edu">>],
    [name |-> "Drama Club",
     description |-> "Act, direct, and produce plays and performances",
     schedule |-> "Mondays and Wednesdays, 3:30 PM - 5:30 PM",
     days |-> <<"Monday", "Wednesday">>, start |-> HHMM(15, 30), end |-> HHMM(17, 30),
     max |-> 20,
     participants |-> <<"ella@mergington.edu", "scarlett@mergington.edu">>],
    [name |-> "Math Club",
     description |-> "Solve challenging problems and prepare for math competitions",
     schedule |-> "Tuesdays, 7:15 AM - 8:00 AM",
     days |-> <<"Tuesday">>, start |-> HHMM(7, 15), end |-> HHMM(8, 0),
     max |-> 10,
     participants |-> <<"james@mergington.edu", "benjamin@mergington.edu">>],
    [name |-> "Debate Team",
     description |-> "Develop public speaking and argumentation skills",
     schedule |-> "Fridays, 3:30 PM - 5:30 PM",
     days |-> <<"Friday">>, start |-> HHMM(15, 30), end |-> HHMM(17, 30),
     max |-> 12,
     participants |-> <<"charlotte@mergington.edu", "amelia@mergington.edu">>],
    [name |-> "Weekend Robotics Workshop",
     description |-> "Build and program robots in our state-of-the-art workshop",
     schedule |-> "Saturdays, 10:00 AM - 2:00 PM",
     days |-> <<"Saturday">>, start |-> HHMM(10, 0), end |-> HHMM(14, 0),
     max |-> 15,
     participants |-> <<"ethan@mergington.edu", "oliver@mergington.edu">>],
    [name |-> "Science Olympiad",
     description |-> "Weekend science competition preparation for regional and state events",
     schedule |-> "Saturdays, 1:00 PM - 4:00 PM",
     days |-> <<"Saturday">>, start |-> HHMM(13, 0), end |-> HHMM(16, 0),
     max |-> 18,
     participants |-> <<"isabella@mergington.edu", "lucas@mergington.edu">>],
    [name |-> "Sunday Chess Tournament",
     description |-> "Weekly tournament for serious chess players with rankings",
     schedule |-> "Sundays, 2:00 PM - 5:00 PM",
     days |-> <<"Sunday">>, start |-> HHMM(14, 0), end |-> HHMM(17, 0),
     max |-> 16,
     participants |-> <<"william@mergington.edu", "jacob@mergington.edu">>],
    [name |-> "Manga Maniacs",
     description |-> "Explore the fantastic stories of the most interesting characters from Japanese Manga (graphic novels).",
     schedule |-> "Tuesdays, 7:00 PM - 8:30 PM",
     days |-> <<"Tuesday">>, start |-> HHMM(19, 0), end |-> HHMM(20, 30),
     max |-> 15,
     participants |-> << >>] >>

\* hash_password(p): an Argon2 hash, opaque to this module
hash_password(p) == StrV("argon2(" \o p \o ")")

SeedTeachers == <<
    [username |-> "mrodriguez", display_name |-> "Ms. Rodriguez",
     password |-> hash_password("art123"), role |-> "teacher"],
    [username |-> "mchen", display_name |-> "Mr. Chen",
     password |-> hash_password("chess456"), role |-> "teacher"],
    [username |-> "principal", display_name |-> "Principal Martinez",
     password |-> hash_password("admin789"), role |-> "admin"] >>

NAct == Len(SeedActivities)
NTea == Len(SeedTeachers)

\* Addresses of the objects the module creates at load time.  Activity i owns
\* four objects: its details dict, its schedule_details dict, its days list
\* and its participants list; teacher j owns one dict.
DetailsAddr(i) == 4 * (i - 1) + 1
SchedAddr(i)   == 4 * (i - 1) + 2
DaysAddr(i)    == 4 * (i - 1) + 3
PartsAddr(i)   == 4 * (i - 1) + 4
TeacherAddr(j) == 4 * NAct + j

ActivityObject(a) ==
    LET i == ((a - 1) \div 4) + 1
        r == SeedActivities[i]
    IN  CASE a = DetailsAddr(i) ->
                DictO([description      |-> StrV(r.description),
                       schedule         |-> StrV(r.schedule),
                       schedule_details |-> RefV(SchedAddr(i)),
                       max_participants |-> IntV(r.max),
                       participants     |-> RefV(PartsAddr(i))])
          [] a = SchedAddr(i) ->
                DictO([days       |-> RefV(DaysAddr(i)),
                       start_time |-> TimeV(r.start),
                       end_time   |-> TimeV(r.end)])
          [] a = DaysAddr(i)  -> ListO(r.days)
          [] a = PartsAddr(i) -> ListO(r.participants)

TeacherObject(j) ==
    LET r == SeedTeachers[j]
    IN  DictO([username     |-> StrV(r.username),
               display_name |-> StrV(r.display_name),
               password     |-> r.password,
               role         |-> StrV(r.role)])

\* The heap right after the module is loaded
LoadHeap ==
    [a \in 1..(4 * NAct + NTea) |->
        IF a <= 4 * NAct THEN ActivityObject(a) ELSE TeacherObject(a - 4 * NAct)]

\* initial_activities: name -> address of its details dict, in source order
initial_activities == [i \in 1..NAct |-> [key |-> SeedActivities[i].name, ref |-> DetailsAddr(i)]]
\* initial_teachers: the list of teacher dicts
initial_teachers == [j \in 1..NTea |-> TeacherAddr(j)]

----------------------------------------------------------------------------
(* MockCollection *)

Colls == {"activities", "teachers"}

\* _data as an insertion-ordered dict: lookup, membership, assignment
Keys(d)      == {d[i].key : i \in 1..Len(d)}
HasKey(d, k) == k \in Keys(d)
Lookup(d, k) == d[CHOOSE i \in 1..Len(d) : d[i].key = k].ref
\* (mutant of Assign: an assignment that never overwrites)
AssignAppend(d, k, a) == Append(d, [key |-> k, ref |-> a])

Assign(d, k, a) ==
    IF HasKey(d, k)
    THEN [i \in 1..Len(d) |-> IF d[i].key = k THEN [key |-> k, ref |-> a] ELSE d[i]]
    ELSE Append(d, [key |-> k, ref |-> a])

\* {"_id": key, **value}
WithId(k, body) == With(body, "_id", StrV(k))

\* count_documents(query): the query is ignored
count_documents(d, q) == Len(d)

\* find_one(query): identifier lookup only
None == [some |-> FALSE, body |-> NoBody]
Some(b) == [some |-> TRUE, body |-> b]

find_one(h, d, q) ==
    IF q.hasId /\ HasKey(d, q.id)
    THEN Some(WithId(q.id, h[Lookup(d, q.id)].body))
    ELSE None

\* insert_one(document), the document being the dict at address a:
\* document.pop("_id"); self._data[item_id] = document
insert_one(h, d, a) ==
    IF "_id" \in DOMAIN h[a].body
    THEN [heap |-> [h EXCEPT ![a].body = Without(@, "_id")],
          data |-> Assign(d, h[a].body["_id"].s, a),
          acknowledged |-> TRUE]
    ELSE [heap |-> h, data |-> d, acknowledged |-> FALSE]

\* list.append(value)
ListAppend(items, v) == Append(items, v)

\* value in list
ListContains(items, v) == \E i \in 1..Len(items) : items[i] = v

\* (mutant of ListRemove: removes the last occurrence)
ListRemoveLast(items, v) ==
    LET i == CHOOSE j \in 1..Len(items) :
                 items[j] = v /\ \A m \in (j + 1)..Len(items) : items[m] # v
    IN  SubSeq(items, 1, i - 1) \o SubSeq(items, i + 1, Len(items))

\* list.remove(value): removes the first occurrence
ListRemove(items, v) ==
    LET i == CHOOSE j \in 1..Len(items) :
                 items[j] = v /\ \A m \in 1..(j - 1) : items[m] # v
    IN  SubSeq(items, 1, i - 1) \o SubSeq(items, i + 1, Len(items))

\* One $push clause on the record at address a.  An existing field that is
\* not a list has no append: AttributeError.
PushOne(h, a, f, v) ==
    IF f \in DOMAIN h[a].body
    THEN IF IsList(h, h[a].body, f)
         THEN [heap |-> [h EXCEPT ![h[a].body[f].n].items = ListAppend(@, v)],
               raised |-> FALSE]
         ELSE [heap |-> h, raised |-> TRUE]
    ELSE [heap |-> Append([h EXCEPT ![a].body = With(@, f, RefV(Len(h) + 1))],
                          ListO(<<v>>)),
          raised |-> FALSE]

\* One $pull clause: `field in record and value in record[field]`, then
\* remove.  The inputs of this model name only fields that are absent or lists.
PullOne(h, a, f, v) ==
    IF IsList(h, h[a].body, f) /\ ListContains(h[h[a].body[f].n].items, v)
    THEN [heap |-> [h EXCEPT ![h[a].body[f].n].items = ListRemove(@, v)],
          raised |-> FALSE]
    ELSE [heap |-> h, raised |-> FALSE]

RECURSIVE ApplyPush(_, _, _)
ApplyPush(st, a, cl) ==
    IF cl = <<>> \/ st.raised THEN st
    ELSE ApplyPush(PushOne(st.heap, a, cl[1].field, cl[1].value), a, Tail(cl))

RECURSIVE ApplyPull(_, _, _)
ApplyPull(st, a, cl) ==
    IF cl = <<>> \/ st.raised THEN st
    ELSE ApplyPull(PullOne(st.heap, a, cl[1].field, cl[1].value), a, Tail(cl))

\* (mutant of UpdateRecord: the $pull clauses first)
UpdateRecordPullFirst(h, a, u) ==
    ApplyPush(ApplyPull([heap |-> h, raised |-> FALSE], a, u.pull), a, u.push)

\* The order in which update_one applies the clauses of one update
UpdateRecord(h, a, u) == ApplyPull(ApplyPush([heap |-> h, raised |-> FALSE], a, u.push), a, u.pull)

\* update_one(query, update)
update_one(h, d, q, u) ==
    IF q.hasId /\ HasKey(d, q.id)
    THEN LET st == UpdateRecord(h, Lookup(d, q.id), u)
         IN  [heap |-> st.heap, raised |-> st.raised,
              modified_count |-> IF st.raised THEN 0 ELSE 1]
    ELSE [heap |-> h, raised |-> FALSE, modified_count |-> 0]

----------------------------------------------------------------------------
(* _matches_query *)

\* Python's order on str, on the character sequences
LexLess(x, y) ==
    \/ Len(x) < Len(y) /\ \A i \in 1..Len(x) : x[i] = y[i]
    \/ \E i \in 1..Len(x) :
          /\ i <= Len(y)
          /\ x[i] < y[i]
          /\ \A j \in 1..(i - 1) : x[j] = y[j]

DaysPath  == "schedule_details.days"
StartPath == "schedule_details.start_time"
EndPath   == "schedule_details.end_time"

\* A condition is {"$in": days}, {"$gte": t}, {"$lte": t} or a bare string
\* (a day name in `s`, or a time in `t`).
NoCond == [op |-> "", days |-> <<>>, s |-> "", t |-> <<>>]
CIn(ds)  == [NoCond EXCEPT !.op = "$in", !.days = ds]
CGte(t)  == [NoCond EXCEPT !.op = "$gte", !.t = t]
CLte(t)  == [NoCond EXCEPT !.op = "$lte", !.t = t]
CDay(s)  == [NoCond EXCEPT !.op = "str", !.s = s]
CTime(t) == [NoCond EXCEPT !.op = "str", !.t = t]

HasNested(h, value, f) ==
    IsDict(h, value, "schedule_details") /\ f \in DOMAIN h[value["schedule_details"].n].body

Nested(h, value, f) == h[value["schedule_details"].n].body[f]

DaysCond(h, value, c) ==
    IF HasNested(h, value, "days")
    THEN LET activity_days == h[Nested(h, value, "days").n].items
         IN  CASE c.op = "$in" ->
                    \E i \in 1..Len(c.days) : ListContains(activity_days, c.days[i])
               [] c.op = "str" -> ListContains(activity_days, c.s)
               [] OTHER -> TRUE
    ELSE FALSE

\* (mutant of StartCond: a start time equal to the bound is rejected)
StartCondStrict(h, value, c) ==
    IF HasNested(h, value, "start_time")
    THEN LET activity_start == Nested(h, value, "start_time").t
         IN  CASE c.op = "$gte" -> LexLess(c.t, activity_start)
               [] c.op = "str"  -> LexLess(c.t, activity_start)
               [] OTHER -> TRUE
    ELSE FALSE

StartCond(h, value, c) ==
    IF HasNested(h, value, "start_time")
    THEN LET activity_start == Nested(h, value, "start_time").t
         IN  CASE c.op = "$gte" -> ~LexLess(activity_start, c.t)
               [] c.op = "str"  -> ~LexLess(activity_start, c.t)
               [] OTHER -> TRUE
    ELSE FALSE

EndCond(h, value, c) ==
    IF HasNested(h, value, "end_time")
    THEN LET activity_end == Nested(h, value, "end_time").t
         IN  CASE c.op = "$lte" -> ~LexLess(c.t, activity_end)
               [] c.op = "str"  -> ~LexLess(c.t, activity_end)
               [] OTHER -> TRUE
    ELSE FALSE

\* (mutant of matches_query: an unknown field path matches nothing)
matches_query_strict(h, value, query) ==
    \A field \in DOMAIN query :
        CASE field = DaysPath  -> DaysCond(h, value, query[field])
          [] field = StartPath -> StartCond(h, value, query[field])
          [] field = EndPath   -> EndCond(h, value, query[field])
          [] OTHER -> FALSE

\* _matches_query(value, query): every condition must hold; a field path
\* other than the three above is not looked at
matches_query(h, value, query) ==
    \A field \in DOMAIN query :
        CASE field = DaysPath  -> DaysCond(h, value, query[field])
          [] field = StartPath -> StartCond(h, value, query[field])
          [] field = EndPath   -> EndCond(h, value, query[field])
          [] OTHER -> TRUE

NoConds == [p \in {} |-> NoCond]
QueryNone == [present |-> FALSE, conds |-> NoConds]
Query(conds) == [present |-> TRUE, conds |-> conds]

\* find(query): the records of _data, in its order, that match
find(h, d, q) ==
    LET sel == IF q.present
               THEN SelectSeq(d, LAMBDA e : matches_query(h, h[e.ref].body, q.conds))
               ELSE d
    IN  [i \in 1..Len(sel) |-> WithId(sel[i].key, h[sel[i].ref].body)]

----------------------------------------------------------------------------
(* State machine *)

NoTemplate == [hasId |-> FALSE, id |-> "", scalars |-> NoBody,
               hasParts |-> FALSE, parts |-> <<>>,
               hasSched |-> FALSE, sched |-> NoBody]
NoUpdate == [push |-> <<>>, pull |-> <<>>, other |-> FALSE]
NoQuery == [hasId |-> FALSE, id |-> ""]

NoResult == [op |-> "none", coll |-> "", query |-> NoQuery, update |-> NoUpdate,
             fquery |-> QueryNone, tpl |-> NoTemplate,
             acknowledged |-> FALSE, modified_count |-> 0, count |-> 0,
             raised |-> FALSE]

Init ==
    /\ heap = LoadHeap
    /\ data = [c \in Colls |-> <<>>]
    /\ ret = None
    /\ found = <<>>
    /\ doc = 0
    /\ result = NoResult
    /\ nops = 0

CountDocuments(c, q) ==
    /\ result' = [NoResult EXCEPT !.op = "count_documents", !.coll = c, !.fquery = q,
                                  !.count = count_documents(data[c], q)]
    /\ ret' = None /\ found' = <<>> /\ doc' = 0
    /\ UNCHANGED <<heap, data, nops>>

FindOne(c, q) ==
    /\ ret' = find_one(heap, data[c], q)
    /\ result' = [NoResult EXCEPT !.op = "find_one", !.coll = c, !.query = q]
    /\ found' = <<>> /\ doc' = 0
    /\ UNCHANGED <<heap, data, nops>>

Find(c, q) ==
    /\ found' = find(heap, data[c], q)
    /\ result' = [NoResult EXCEPT !.op = "find", !.coll = c, !.fquery = q]
    /\ ret' = None /\ doc' = 0
    /\ UNCHANGED <<heap, data, nops>>

UpdateOne(c, q, u) ==
    /\ nops < MaxOps
    /\ LET r == update_one(heap, data[c], q, u)
       IN  /\ heap' = r.heap
           /\ result' = [NoResult EXCEPT !.op = "update_one", !.coll = c, !.query = q,
                                         !.update = u, !.raised = r.raised,
                                         !.modified_count = r.modified_count]
    /\ nops' = nops + 1
    /\ ret' = None /\ found' = <<>> /\ doc' = 0
    /\ UNCHANGED data

\* The caller builds a fresh document from a template: a participants list,
\* a schedule_details dict and the top-level dict, each a new object.
BuildDoc(h, tpl) ==
    LET n  == Len(h)
        pa == n + 1
        sa == IF tpl.hasParts THEN n + 2 ELSE n + 1
        h1 == IF tpl.hasParts THEN Append(h, ListO(tpl.parts)) ELSE h
        h2 == IF tpl.hasSched THEN Append(h1, DictO(tpl.sched)) ELSE h1
        b0 == IF tpl.hasId THEN WithId(tpl.id, tpl.scalars) ELSE tpl.scalars
        b1 == IF tpl.hasParts THEN With(b0, "participants", RefV(pa)) ELSE b0
        b2 == IF tpl.hasSched THEN With(b1, "schedule_details", RefV(sa)) ELSE b1
    IN  [heap |-> Append(h2, DictO(b2)), addr |-> Len(h2) + 1]

InsertOne(c, tpl) ==
    /\ nops < MaxOps
    /\ LET b == BuildDoc(heap, tpl)
           r == insert_one(b.heap, data[c], b.addr)
       IN  /\ heap' = r.heap
           /\ data' = [data EXCEPT ![c] = r.data]
           /\ doc' = b.addr
           /\ result' = [NoResult EXCEPT !.op = "insert_one", !.coll = c, !.tpl = tpl,
                                         !.query = [hasId |-> tpl.hasId, id |-> tpl.id],
                                         !.acknowledged = r.acknowledged]
    /\ nops' = nops + 1
    /\ ret' = None /\ found' = <<>>

\* The caller inserts {**r, "_id": k} for the record r it holds from find_one
InsertHeld(c, k) ==
    /\ nops < MaxOps
    /\ ret.some
    /\ LET a == Len(heap) + 1
           r == insert_one(Append(heap, DictO(WithId(k, ret.body))), data[c], a)
       IN  /\ heap' = r.heap
           /\ data' = [data EXCEPT ![c] = r.data]
           /\ doc' = a
           /\ result' = [NoResult EXCEPT !.op = "insert_one", !.coll = c,
                                         !.query = [hasId |-> TRUE, id |-> k],
                                         !.acknowledged = r.acknowledged]
    /\ nops' = nops + 1
    /\ ret' = None /\ found' = <<>>

\* (mutant of IsEmpty: seeding without the emptiness test)
IsEmptyUnchecked(d) == TRUE

\* init_database(): the emptiness test of each collection
IsEmpty(d) == count_documents(d, Query(NoConds)) = 0

\* for name, details in ...: insert_one({"_id": name, **details})
RECURSIVE SeedInto(_, _, _)
SeedInto(st, docs, i) ==
    IF i > Len(docs) THEN st
    ELSE LET a  == Len(st.heap) + 1
             h1 == Append(st.heap, DictO(WithId(docs[i].key, st.heap[docs[i].ref].body)))
             r  == insert_one(h1, st.data, a)
         IN  SeedInto([heap |-> r.heap, data |-> r.data], docs, i + 1)

\* The except branch of init_database is not reached with MockCollection:
\* count_documents and insert_one raise nothing on these documents.
init_database(h, d) ==
    LET act == IF IsEmpty(d["activities"])
               THEN SeedInto([heap |-> h, data |-> d["activities"]], initial_activities, 1)
               ELSE [heap |-> h, data |-> d["activities"]]
        tdocs == [j \in 1..Len(initial_teachers) |->
                    [key |-> act.heap[initial_teachers[j]].body["username"].s,
                     ref |-> initial_teachers[j]]]
        tea == IF IsEmpty(d["teachers"])
               THEN SeedInto([heap |-> act.heap, data |-> d["teachers"]], tdocs, 1)
               ELSE [heap |-> act.heap, data |-> d["teachers"]]
    IN  [heap |-> tea.heap,
         data |-> [c \in Colls |-> IF c = "activities" THEN act.data ELSE tea.data]]

InitDatabase ==
    /\ nops < MaxOps
    /\ LET r == init_database(heap, data)
       IN  heap' = r.heap /\ data' = r.data
    /\ result' = [NoResult EXCEPT !.op = "init_database"]
    /\ nops' = nops + 1
    /\ ret' = None /\ found' = <<>> /\ doc' = 0

----------------------------------------------------------------------------
(* The caller's own code, acting on the objects the store handed out or   *)
(* took in: records from find / find_one, the document given to           *)
(* insert_one.                                                             *)

HeldRecords ==
    (IF ret.some THEN {ret.body} ELSE {}) \cup {found[i] : i \in 1..Len(found)}

CallerResult == [NoResult EXCEPT !.op = "caller"]

\* record["participants"].append(v)
CallerAppend(v) ==
    /\ nops < MaxOps
    /\ \E b \in HeldRecords :
          /\ IsList(heap, b, "participants")
          /\ heap' = [heap EXCEPT ![b["participants"].n].items = ListAppend(@, v)]
    /\ result' = CallerResult
    /\ nops' = nops + 1
    /\ UNCHANGED <<data, ret, found, doc>>

\* record["schedule_details"]["start_time"] = t
CallerSetNested(t) ==
    /\ nops < MaxOps
    /\ \E b \in HeldRecords :
          /\ IsDict(heap, b, "schedule_details")
          /\ heap' = [heap EXCEPT ![b["schedule_details"].n].body = With(@, "start_time", TimeV(t))]
    /\ result' = CallerResult
    /\ nops' = nops + 1
    /\ UNCHANGED <<data, ret, found, doc>>

\* record["max_participants"] = n on the record find_one returned
CallerSetRet(n) ==
    /\ nops < MaxOps
    /\ ret.some
    /\ ret' = Some(With(ret.body, "max_participants", IntV(n)))
    /\ result' = CallerResult
    /\ nops' = nops + 1
    /\ UNCHANGED <<heap, data, found, doc>>

\* document["max_participants"] = n on the document given to insert_one
CallerSetDoc(n) ==
    /\ nops < MaxOps
    /\ doc # 0
    /\ heap' = [heap EXCEPT ![doc].body = With(@, "max_participants", IntV(n))]
    /\ result' = CallerResult
    /\ nops' = nops + 1
    /\ UNCHANGED <<data, ret, found, doc>>

----------------------------------------------------------------------------
(* Inputs *)

Michael == "michael@mergington.edu"
Zoe     == "zoe@mergington.edu"

QKeys(c) == IF c = "activities" THEN {"Chess Club", "Art Room"} ELSE {"mchen"}
Queries(c) ==
    {[hasId |-> TRUE, id |-> k] : k \in QKeys(c)}
    \cup (IF c = "activities" THEN {NoQuery} ELSE {})

Clause(f, v) == [field |-> f, value |-> v]
Push(f, v) == [NoUpdate EXCEPT !.push = <<Clause(f, v)>>]
Pull(f, v) == [NoUpdate EXCEPT !.pull = <<Clause(f, v)>>]
PushPull(f, v) == [NoUpdate EXCEPT !.push = <<Clause(f, v)>>, !.pull = <<Clause(f, v)>>]
\* an update that carries only an operator update_one does not know, e.g. $set
Unsupported == [NoUpdate EXCEPT !.other = TRUE]

Updates(c) ==
    IF c = "activities"
    THEN { Push("participants", Michael), Pull("participants", Michael),
           PushPull("participants", Michael), Unsupported,
           Push("max_participants", Zoe) }
    ELSE { Push("participants", Zoe), Pull("participants", Michael) }

ArtRoom ==
    [NoTemplate EXCEPT !.hasId = TRUE, !.id = "Art Room",
                       !.scalars = [max_participants |-> IntV(5)],
                       !.hasParts = TRUE, !.parts = <<Michael, Zoe, Michael>>]
ChessClub2 ==
    [NoTemplate EXCEPT !.hasId = TRUE, !.id = "Chess Club",
                       !.scalars = [max_participants |-> IntV(5)],
                       !.hasSched = TRUE,
                       !.sched = [start_time |-> TimeV(HHMM(9, 0)),
                                  end_time |-> TimeV(HHMM(10, 0))]]
Anonymous == [NoTemplate EXCEPT !.scalars = [max_participants |-> IntV(5)]]

Templates(c) == IF c = "activities" THEN {ArtRoom, ChessClub2, Anonymous} ELSE {}

HeldKeys(c) == IF c = "activities" THEN {"Art Room"} ELSE {}

FindQueries(c) ==
    IF c = "activities"
    THEN { QueryNone, Query([p \in {"max_participants"} |-> CDay("12")]) }
    ELSE {}

CountQueries(c) ==
    IF c = "activities"
    THEN { QueryNone, Query([p \in {DaysPath} |-> CIn(<<"Monday">>)]) }
    ELSE { Query(NoConds) }

Next ==
    \/ InitDatabase
    \/ \E c \in Colls : \E q \in CountQueries(c) : CountDocuments(c, q)
    \/ \E c \in Colls : \E q \in Queries(c) : FindOne(c, q)
    \/ \E c \in Colls : \E q \in FindQueries(c) : Find(c, q)
    \/ \E c \in Colls : \E t \in Templates(c) : InsertOne(c, t)
    \/ \E c \in Colls : \E k \in HeldKeys(c) : InsertHeld(c, k)
    \/ \E c \in Colls : \E q \in Queries(c) : \E u \in Updates(c) : UpdateOne(c, q, u)
    \/ CallerAppend(Zoe)
    \/ CallerSetNested(HHMM(9, 0))
    \/ CallerSetRet(99)
    \/ CallerSetDoc(99)

Spec == Init /\ [][Next]_vars

----------------------------------------------------------------------------
(* What a reader sees: a record with every reference followed.             *)

RECURSIVE Mat(_, _)
RECURSIVE MatBody(_, _)
Mat(h, v) ==
    IF v.kind = "ref"
    THEN [kind |-> h[v.n].kind, s |-> "", n |-> 0, t |-> <<>>,
          items |-> h[v.n].items, body |-> MatBody(h, h[v.n].body)]
    ELSE [kind |-> v.kind, s |-> v.s, n |-> v.n, t |-> v.t,
          items |-> <<>>, body |-> NoBody]
MatBody(h, b) == [f \in DOMAIN b |-> Mat(h, b[f])]

IdQuery(k) == [hasId |-> TRUE, id |-> k]

\* what find_one({"_id": k}) would return now
FindOneView(h, d, k) ==
    LET r == find_one(h, d, IdQuery(k))
    IN  IF r.some THEN Some(MatBody(h, r.body)) ELSE None

\* what find() would yield now
StoreView(h, d) == [i \in 1..Len(find(h, d, QueryNone)) |-> MatBody(h, find(h, d, QueryNone)[i])]

\* the stored record of key k, without the identifier
RecordView(h, d, k) == MatBody(h, h[Lookup(d, k)].body)

\* initial_activities as a reader of the module sees it
SeedView(h) ==
    [i \in 1..Len(initial_activities) |->
        [key |-> initial_activities[i].key,
         value |-> MatBody(h, h[initial_activities[i].ref].body)]]

AllKeys == UNION {QKeys(c) : c \in Colls}

\* the document a template describes, as the caller wrote it
TemplateView(tpl) ==
    LET b == BuildDoc(<<>>, tpl) IN MatBody(b.heap, b.heap[b.addr].body)

StepOf(op) == nops' = nops + 1 /\ result'.op = op

----------------------------------------------------------------------------
(* C10: the static seed data (initial_activities, each activity's          *)
(* participants included) keeps its load-time value whatever update_one    *)
(* calls are made on the store seeded from it.                             *)
C10_SeedDataUnchanged == SeedView(heap) = SeedView(LoadHeap)

(* C5: every read is a snapshot and a document is copied on insert: the    *)
(* records find / find_one return change only by insert_one and update_one *)
(* (init_database inserts); nothing the caller does to a record it read,   *)
(* or to a document it inserted, changes them.                             *)
C5_ReadsAreSnapshots ==
    [][ result'.op \notin {"insert_one", "update_one", "init_database"}
        => \A c \in Colls : StoreView(heap', data'[c]) = StoreView(heap, data[c]) ]_vars

(* C1: after insert_one(d) with identifier k, find_one({_id: k}) returns   *)
(* d's non-identifier fields plus k, and keeps returning that until the    *)
(* next insert_one or update_one on k.                                     *)
C1_FindOneReturnsInserted ==
    [][ \A c \in Colls : \A k \in AllKeys :
          /\ \A tpl \in Templates(c) :
                (InsertOne(c, tpl) /\ tpl.hasId /\ tpl.id = k)
                => FindOneView(heap', data'[c], k) = Some(TemplateView(tpl))
          /\ ~ \/ result'.op = "init_database"
               \/ /\ result'.op \in {"insert_one", "update_one"}
                  /\ result'.coll = c /\ result'.query = IdQuery(k)
             => FindOneView(heap', data'[c], k) = FindOneView(heap, data[c], k) ]_vars

----------------------------------------------------------------------------
(* Helpers of the statements below *)

Exists(c, q) == q.hasId /\ HasKey(data[c], q.id)

Elems(items) == {items[i] : i \in 1..Len(items)}

\* items with its i-th element left out
WithoutIndex(items, i) ==
    [j \in 1..(Len(items) - 1) |-> IF j < i THEN items[j] ELSE items[j + 1]]

IsFirst(items, i, v) == items[i] = v /\ \A j \in 1..(i - 1) : items[j] # v

ListView(items) == [kind |-> "list", s |-> "", n |-> 0, t |-> <<>>,
                    items |-> items, body |-> NoBody]

IsListField(view, f) == f \in DOMAIN view /\ view[f].kind = "list"

\* every record of every collection other than (c, k) reads the same
OthersUnchanged(c, k) ==
    \A c2 \in Colls : \A i \in 1..Len(data[c2]) :
        (c2 # c \/ data[c2][i].key # k)
        => /\ HasKey(data'[c2], data[c2][i].key)
           /\ RecordView(heap', data'[c2], data[c2][i].key)
              = RecordView(heap, data[c2], data[c2][i].key)

StoresUnchanged ==
    /\ data' = data
    /\ \A c \in Colls : StoreView(heap', data'[c]) = StoreView(heap, data[c])

(* C2: update_one on an existing key with $push {f: v} appends exactly one *)
(* element v at the end of f's sequence ([v] when f is absent) and changes *)
(* no other field or record; there is no capacity check.                   *)
C2_PushAppendsOne ==
    [][ ( /\ StepOf("update_one")
          /\ result'.update.pull = <<>> /\ Len(result'.update.push) = 1
          /\ Exists(result'.coll, result'.query) )
        => LET c == result'.coll
               k == result'.query.id
               f == result'.update.push[1].field
               v == result'.update.push[1].value
               before == RecordView(heap, data[c], k)
               after  == RecordView(heap', data'[c], k)
           IN  (f \notin DOMAIN before \/ before[f].kind = "list")
               => /\ result'.modified_count = 1
                  /\ after = With(before, f,
                                  ListView((IF f \in DOMAIN before
                                            THEN before[f].items ELSE <<>>) \o <<v>>))
                  /\ OthersUnchanged(c, k) ]_vars

(* C3: $pull {f: v} removes only the first occurrence of v from f's        *)
(* sequence, is a no-op on the record when f or v is absent, and           *)
(* modified_count is 1 exactly when the queried key exists.                *)
C3_PullFirstOccurrence ==
    [][ ( /\ StepOf("update_one")
          /\ result'.update.push = <<>> /\ Len(result'.update.pull) = 1 )
        => LET c == result'.coll
               k == result'.query.id
               f == result'.update.pull[1].field
               v == result'.update.pull[1].value
           IN  /\ ~result'.raised
               /\ result'.modified_count = (IF Exists(c, result'.query) THEN 1 ELSE 0)
               /\ Exists(c, result'.query)
                  => LET before == RecordView(heap, data[c], k)
                         after  == RecordView(heap', data'[c], k)
                     IN  IF IsListField(before, f) /\ v \in Elems(before[f].items)
                         THEN \E i \in 1..Len(before[f].items) :
                                 /\ IsFirst(before[f].items, i, v)
                                 /\ after = With(before, f,
                                                 ListView(WithoutIndex(before[f].items, i)))
                         ELSE after = before ]_vars

C3_Witness ==
    /\ result.op = "update_one" /\ result.modified_count = 1
    /\ result.coll = "activities" /\ result.query = IdQuery("Art Room")
    /\ result.update = Pull("participants", Michael)
    /\ RecordView(heap, data["activities"], "Art Room")["participants"].items = <<Zoe, Michael>>

(* C9: in one update_one every $push clause is applied before any $pull    *)
(* clause: with $push {f: v} and $pull {f: v}, an absent f ends as the     *)
(* empty sequence, a sequence without v ends unchanged, a sequence with v  *)
(* loses its first v and ends with v; modified_count is 1.                 *)
C9_PushBeforePull ==
    [][ ( /\ StepOf("update_one")
          /\ Len(result'.update.push) = 1 /\ result'.update.pull = result'.update.push
          /\ Exists(result'.coll, result'.query) )
        => LET c == result'.coll
               k == result'.query.id
               f == result'.update.push[1].field
               v == result'.update.push[1].value
               before == RecordView(heap, data[c], k)
               after  == RecordView(heap', data'[c], k)
           IN  /\ result'.modified_count = 1
               /\ f \notin DOMAIN before => after = With(before, f, ListView(<<>>))
               /\ (IsListField(before, f) /\ v \notin Elems(before[f].items))
                  => after = before
               /\ (IsListField(before, f) /\ v \in Elems(before[f].items))
                  => \E i \in 1..Len(before[f].items) :
                        /\ IsFirst(before[f].items, i, v)
                        /\ after = With(before, f,
                                        ListView(WithoutIndex(before[f].items, i) \o <<v>>)) ]_vars

C9_Witness ==
    /\ result.op = "update_one" /\ result.modified_count = 1
    /\ result.coll = "activities" /\ result.query = IdQuery("Chess Club")
    /\ result.update = PushPull("participants", Michael)
    /\ IsListField(RecordView(heap, data["activities"], "Chess Club"), "participants")
    /\ RecordView(heap, data["activities"], "Chess Club")["participants"].items
       = <<"daniel@mergington.edu", Michael>>

SupportedPaths == {DaysPath, StartPath, EndPath}

(* C6: malformed input raises nothing and changes nothing: find_one        *)
(* without identifier returns None; insert_one without identifier is not   *)
(* acknowledged and inserts nothing; update_one without identifier or on   *)
(* an absent key returns modified_count 0 and changes nothing; update_one  *)
(* on an existing key with only unsupported operators changes nothing and  *)
(* returns 1; a find query on unsupported paths matches every record.      *)
C6_MalformedInputDegrades ==
    [][ /\ (result'.op = "find_one" /\ ~result'.query.hasId)
           => ret' = None /\ ~result'.raised
        /\ (StepOf("insert_one") /\ ~result'.query.hasId)
           => ~result'.acknowledged /\ ~result'.raised /\ StoresUnchanged
        /\ (StepOf("update_one") /\ ~Exists(result'.coll, result'.query))
           => result'.modified_count = 0 /\ ~result'.raised /\ StoresUnchanged
        /\ ( /\ StepOf("update_one") /\ Exists(result'.coll, result'.query)
             /\ result'.update.push = <<>> /\ result'.update.pull = <<>> )
           => result'.modified_count = 1 /\ ~result'.raised /\ StoresUnchanged
        /\ ( /\ result'.op = "find" /\ result'.fquery.present
             /\ DOMAIN result'.fquery.conds # {}
             /\ (DOMAIN result'.fquery.conds) \cap SupportedPaths = {} )
           => /\ ~result'.raised
              /\ found' = [i \in 1..Len(data'[result'.coll]) |->
                              WithId(data'[result'.coll][i].key,
                                     heap'[data'[result'.coll][i].ref].body)] ]_vars

C6_Witness ==
    /\ result.op = "find" /\ result.coll = "activities"
    /\ result.fquery = Query([p \in {"max_participants"} |-> CDay("12")])
    /\ Len(found) = NAct + 1

(* C7: init_database on populated stores inserts nothing and leaves every  *)
(* record of both stores unchanged; a store is seeded only when its own    *)
(* document count is 0.                                                    *)
C7_InitIdempotent ==
    [][ StepOf("init_database")
        => /\ \A c \in Colls :
                 IF Len(data[c]) # 0
                 THEN /\ data'[c] = data[c]
                      /\ StoreView(heap', data'[c]) = StoreView(heap, data[c])
                 ELSE [i \in 1..Len(data'[c]) |-> data'[c][i].key]
                      = (IF c = "activities"
                         THEN [i \in 1..NAct |-> SeedActivities[i].name]
                         ELSE [j \in 1..NTea |-> SeedTeachers[j].username])
           /\ (\A c \in Colls : Len(data[c]) # 0) => heap' = heap ]_vars

C7_Witness ==
    /\ result.op = "init_database"
    /\ Len(data["activities"]) = NAct /\ Len(data["teachers"]) = NTea
    /\ Len(heap) = Len(LoadHeap) + NAct + NTea
    /\ RecordView(heap, data["activities"], "Chess Club")["participants"].items
       = <<"daniel@mergington.edu">>

(* C8: count_documents(q) is, whatever q, the number of distinct keys      *)
(* inserted so far: 0 on a fresh store, 13 after the seed activities; only *)
(* an acknowledged insert_one of a new key (init_database's included)      *)
(* changes it.                                                             *)
C8_CountIsDistinctKeys ==
    /\ [](\A c \in Colls :
            /\ \A q \in CountQueries(c) :
                  count_documents(data[c], q) = Cardinality(Keys(data[c]))
            /\ (result.op = "count_documents" /\ result.coll = c)
               => result.count = Cardinality(Keys(data[c]))
            /\ nops = 0 => count_documents(data[c], QueryNone) = 0)
    /\ [][ \A c \in Colls :
            /\ Keys(data[c]) \subseteq Keys(data'[c])
            /\ (StepOf("init_database") /\ c = "activities" /\ Keys(data[c]) = {})
               => count_documents(data'[c], QueryNone) = 13
            /\ Keys(data'[c]) # Keys(data[c])
               => \/ StepOf("init_database") /\ Keys(data[c]) = {}
                  \/ /\ StepOf("insert_one") /\ result'.acknowledged /\ result'.coll = c
                     /\ Keys(data'[c]) = Keys(data[c]) \cup {result'.query.id} ]_vars

C8_Witness ==
    /\ result.op = "count_documents" /\ result.coll = "activities"
    /\ result.fquery.present
    /\ result.count = 14
    /\ "Chess Club" \in Keys(data["activities"]) /\ "Art Room" \in Keys(data["activities"])

----------------------------------------------------------------------------
(* find under queries on the three supported paths *)

DaysConds  == {CIn(<<"Monday">>), CIn(<<"Saturday", "Sunday">>), CIn(<<>>), CDay("Tuesday")}
StartConds == {CGte(HHMM(15, 0)), CGte(HHMM(15, 15)), CTime(HHMM(7, 15))}
EndConds   == {CLte(HHMM(17, 0)), CTime(HHMM(8, 0))}

WideQueries ==
    {QueryNone}
    \cup { Query([p \in P |-> CASE p = DaysPath -> dc [] p = StartPath -> sc [] p = EndPath -> ec]) :
              dc \in DaysConds, sc \in StartConds, ec \in EndConds, P \in SUBSET SupportedPaths }

NextFind ==
    \/ InitDatabase
    \/ \E t \in Templates("activities") : InsertOne("activities", t)
    \/ \E q \in WideQueries : Find("activities", q)

SpecFind == Init /\ [][NextFind]_vars

\* "HH:MM" read as minutes since midnight
Minutes(t) == (t[1] * 10 + t[2]) * 60 + t[4] * 10 + t[5]

HasSchedule(view, f) ==
    /\ "schedule_details" \in DOMAIN view
    /\ view["schedule_details"].kind = "dict"
    /\ f \in DOMAIN view["schedule_details"].body

Schedule(view, f) == view["schedule_details"].body[f]

\* the meaning of one condition on a record, in the terms of the query language
Satisfies(view, p, cond) ==
    CASE p = DaysPath ->
            /\ HasSchedule(view, "days")
            /\ (IF cond.op = "$in" THEN Elems(cond.days) ELSE {cond.s})
               \cap Elems(Schedule(view, "days").items) # {}
      [] p = StartPath ->
            /\ HasSchedule(view, "start_time")
            /\ Minutes(Schedule(view, "start_time").t) >= Minutes(cond.t)
      [] p = EndPath ->
            /\ HasSchedule(view, "end_time")
            /\ Minutes(Schedule(view, "end_time").t) <= Minutes(cond.t)

SatisfiesAll(view, q) ==
    q.present => \A p \in DOMAIN q.conds : Satisfies(view, p, q.conds[p])

MondayQuery == Query([p \in {DaysPath} |-> CIn(<<"Monday">>)])

FoundKeys == [i \in 1..Len(found) |-> found[i]["_id"].s]

IsSeedSet(c) ==
    /\ c = "activities"
    /\ [i \in 1..Len(data[c]) |->
           [key |-> data[c][i].key, value |-> RecordView(heap, data[c], data[c][i].key)]]
       = SeedView(LoadHeap)

(* C4: for every store content and every query on the three supported     *)
(* paths, find(query) yields exactly the records that satisfy all the      *)
(* conditions (a record lacking the field never matching), every record    *)
(* when the query is absent or empty, and on the seed set the Monday query *)
(* yields Chess Club, Morning Fitness and Drama Club.                      *)
C4_FindYieldsMatching ==
    (result.op = "find" /\ DOMAIN result.fquery.conds \subseteq SupportedPaths)
    => LET c == result.coll
           q == result.fquery
           idx == SelectSeq([i \in 1..Len(data[c]) |-> i],
                            LAMBDA i : SatisfiesAll(RecordView(heap, data[c], data[c][i].key), q))
       IN  /\ found = [j \in 1..Len(idx) |->
                          WithId(data[c][idx[j]].key, heap[data[c][idx[j]].ref].body)]
           /\ (~q.present \/ DOMAIN q.conds = {}) => Len(found) = Len(data[c])
           /\ (q = MondayQuery /\ IsSeedSet(c))
              => FoundKeys = <<"Chess Club", "Morning Fitness", "Drama Club">>

C4_Witness ==
    /\ result.op = "find" /\ result.fquery = MondayQuery /\ IsSeedSet(result.coll)
    /\ FoundKeys = <<"Chess Club", "Morning Fitness", "Drama Club">>
====
